---- MODULE Spec2Model ----
(***************************************************************************)
(* Model of scripts/select_uniq.py: clustering of identical sequences.     *)
(*                                                                         *)
(* Strings are sequences of code points, so that Python's string order,    *)
(* str.strip, str.split, str.upper and textwrap.wrap are computed on the   *)
(* characters.  A dict is the sequence of its <<key, value>> items in      *)
(* insertion order.  A line of a text file keeps its terminating newline.  *)
(***************************************************************************)
EXTENDS Integers, Sequences, FiniteSets, TLC

\* ------------------------------------------------------------------ bounds
MaxRecs == 3
MaxWidth == 3
MaxSeqLen == 3
MaxGroup == 3
MaxPref == 2

\* -------------------------------------------------------------- characters
NL == 10
TAB == 9
CR == 13
SP == 32
GT == 62
HASH == 35

\* str.isspace on the code points below 256
IsSpace(c) == c \in {9, 10, 11, 12, 13, 28, 29, 30, 31, 32, 133, 160}

\* ----------------------------------------------------------- str methods
RECURSIVE lstrip_ws(_)
lstrip_ws(s) ==
    IF s # <<>> /\ IsSpace(Head(s)) THEN lstrip_ws(Tail(s)) ELSE s

RECURSIVE rstrip_ws(_)
rstrip_ws(s) ==
    IF s # <<>> /\ IsSpace(s[Len(s)])
    THEN rstrip_ws(SubSeq(s, 1, Len(s) - 1)) ELSE s

\* str.strip()
strip(s) == rstrip_ws(lstrip_ws(s))

\* str.lstrip(chars) for a one-character argument
RECURSIVE lstrip(_, _)
lstrip(s, c) ==
    IF s # <<>> /\ Head(s) = c THEN lstrip(Tail(s), c) ELSE s

\* str.startswith / str.endswith
startswith(s, p) == Len(s) >= Len(p) /\ SubSeq(s, 1, Len(p)) = p
endswith(s, p) ==
    Len(s) >= Len(p) /\ SubSeq(s, Len(s) - Len(p) + 1, Len(s)) = p

\* the leading run of non-whitespace characters of s
RECURSIVE token(_)
token(s) ==
    IF s = <<>> \/ IsSpace(Head(s)) THEN <<>>
    ELSE <<Head(s)>> \o token(Tail(s))

\* str.split()[0]: the first whitespace-delimited token
split0(s) == token(lstrip_ws(s))

\* str.upper() on ASCII
upper(s) == [i \in 1..Len(s) |-> IF s[i] >= 97 /\ s[i] <= 122
                                  THEN s[i] - 32 ELSE s[i]]

\* "".join(list)
RECURSIVE join(_)
join(l) == IF l = <<>> THEN <<>> ELSE Head(l) \o join(Tail(l))

\* Python's < on str: lexicographic on code points
RECURSIVE StrLT(_, _)
StrLT(a, b) ==
    IF b = <<>> THEN FALSE
    ELSE IF a = <<>> THEN TRUE
    ELSE IF Head(a) # Head(b) THEN Head(a) < Head(b)
    ELSE StrLT(Tail(a), Tail(b))

\* str(int) for a non-negative int
RECURSIVE str(_)
str(n) == IF n < 10 THEN <<48 + n>> ELSE str(n \div 10) \o <<48 + (n % 10)>>

\* ------------------------------------------------------------ comparisons
\* < on the cluster tuples (-len(nms), repr_nm, len(seq), nms, checksum): the first
\* component that differs decides; sets compare by proper inclusion
SetLT(a, b) == a \subseteq b /\ a # b

\* the tuples without repr_nm
ClusterLT_no_repr(a, b) ==
    IF a[1] # b[1] THEN a[1] < b[1]
    ELSE IF a[3] # b[3] THEN a[3] < b[3]
    ELSE IF a[4] # b[4] THEN SetLT(a[4], b[4])
    ELSE IF a[5] # b[5] THEN StrLT(a[5], b[5])
    ELSE FALSE

\* the sort key -len(nms) alone
ClusterLT_size_only(a, b) == a[1] < b[1]

ClusterLT(a, b) ==
    IF a[1] # b[1] THEN a[1] < b[1]
    ELSE IF a[2] # b[2] THEN StrLT(a[2], b[2])
    ELSE IF a[3] # b[3] THEN a[3] < b[3]
    ELSE IF a[4] # b[4] THEN SetLT(a[4], b[4])
    ELSE IF a[5] # b[5] THEN StrLT(a[5], b[5])
    ELSE FALSE

\* < on the sort key (len(nm), nm)
KeyLT(a, b) == IF Len(a) # Len(b) THEN Len(a) < Len(b) ELSE StrLT(a, b)

\* < on the (name, seq) items of a dict
ItemLT(a, b) == IF a[1] # b[1] THEN StrLT(a[1], b[1]) ELSE StrLT(a[2], b[2])

\* the < of two items of a list that is sorted; kind names their type
less(kind, a, b) ==
    CASE kind = "str" -> StrLT(a, b)
      [] kind = "key" -> KeyLT(a, b)
      [] kind = "item" -> ItemLT(a, b)
      [] kind = "cluster" -> ClusterLT(a, b)

\* ------------------------------------------------------------- list.sort
\* CPython's list.sort on a list shorter than 64 items: the initial run is
\* found (a strictly descending one is reversed) and the remaining items
\* are placed by binary insertion.
Reverse(s) == [i \in 1..Len(s) |-> s[Len(s) + 1 - i]]

count_run(s, kind) ==
    LET desc == less(kind, s[2], s[1])
        ext[i \in 2..Len(s)] ==
            IF i = Len(s) THEN i
            ELSE IF desc = less(kind, s[i + 1], s[i]) THEN ext[i + 1] ELSE i
    IN  [n |-> ext[2], descending |-> desc]

binarysort_pos(pre, pivot, kind) ==
    LET f[l \in 0..Len(pre), r \in 0..Len(pre)] ==
            IF l >= r THEN l
            ELSE LET p == l + ((r - l) \div 2)
                 IN  IF less(kind, pivot, pre[p + 1]) THEN f[l, p] ELSE f[p + 1, r]
    IN  f[0, Len(pre)]

binarysort(s, start, kind) ==
    LET f[k \in start..(Len(s) + 1)] ==
            IF k = start THEN SubSeq(s, 1, start - 1)
            ELSE LET pre == f[k - 1]
                     pivot == s[k - 1]
                     l == binarysort_pos(pre, pivot, kind)
                 IN  SubSeq(pre, 1, l) \o <<pivot>>
                        \o SubSeq(pre, l + 1, Len(pre))
    IN  f[Len(s) + 1]

sorted(s, kind) ==
    IF Len(s) < 2 THEN s
    ELSE LET run == count_run(s, kind)
             head == SubSeq(s, 1, run.n)
             s1 == (IF run.descending THEN Reverse(head) ELSE head)
                      \o SubSeq(s, run.n + 1, Len(s))
         IN  binarysort(s1, run.n + 1, kind)

\* A set of str is iterated in the order of its hash table, which differs
\* from one run to the next: every enumeration of the set can come out.
RECURSIVE HashOrders(_)
HashOrders(S) ==
    IF S = {} THEN {<<>>}
    ELSE UNION {{<<x>> \o o : o \in HashOrders(S \ {x})} : x \in S}

\* one iteration order for each set of a list of sets
HashOrdersOf(sets) ==
    LET f[i \in 0..Len(sets)] ==
            IF i = 0 THEN {<<>>}
            ELSE {Append(hs, o) : hs \in f[i - 1], o \in HashOrders(sets[i])}
    IN  f[Len(sets)]

\* the items of the set S as iterated, where h enumerates a set that
\* holds them (S keeps the order that h gives its items)
list(S, h) ==
    LET In(x) == x \in S IN SelectSeq(h, In)

\* ------------------------------------------------------------------ dict
keys(d) == {d[i][1] : i \in 1..Len(d)}
index(d, k) == CHOOSE i \in 1..Len(d) : d[i][1] = k
get(d, k) == d[index(d, k)][2]
\* d[k] = v
setitem(d, k, v) ==
    IF k \in keys(d) THEN [d EXCEPT ![index(d, k)][2] = v]
    ELSE Append(d, <<k, v>>)

\* --------------------------------------------------------------- loading
\* None in place of a name, and in place of the lines of a file
None == <<-1>>
NoFile == <<None>>

load_nms(inlist) ==
    {strip(inlist[i]) : i \in {j \in 1..Len(inlist) :
                                 ~startswith(inlist[j], <<HASH>>)}}

\* the dict after add_seq(nm, seq, seqs)
add_seq(nm, seq, seqs) ==
    IF nm = None THEN seqs
    ELSE IF seq \in keys(seqs)
         THEN [seqs EXCEPT ![index(seqs, seq)][2] = @ \cup {nm}]
         ELSE Append(seqs, <<seq, {nm}>>)

\* the value add_seq returns
add_seq_result(nm, seq, seqs) == nm # None

\* one iteration of the loop of load_seqs; st is [seqs, nm, seq]
load_line(st, line) ==
    IF startswith(line, <<GT>>)
    THEN [seqs |-> add_seq(st.nm, join(st.seq), st.seqs),
          nm |-> lstrip(split0(line), GT),
          seq |-> <<>>]
    ELSE [st EXCEPT !.seq = Append(@, strip(line))]

load_seqs(infasta) ==
    LET st[i \in 0..Len(infasta)] ==
            IF i = 0 THEN [seqs |-> <<>>, nm |-> None, seq |-> <<>>]
            ELSE load_line(st[i - 1], infasta[i])
        fin == st[Len(infasta)]
    IN  add_seq(fin.nm, join(fin.seq), fin.seqs)

\* ------------------------------------------------------- representatives
putative_tag == <<80>>

\* nms is the iterable as it is iterated: a list, or a set in hash order
select_shortest(nms) == sorted(nms, "key")[1]

\* select_repr without the filter on the putative tag
select_repr_unfiltered(nms, preferred, h) ==
    LET hits == nms \cap preferred
    IN  IF hits # {} THEN select_shortest(list(hits, h))
        ELSE select_shortest(list(nms, h))

\* select_repr taking the preferred names without intersecting them
select_repr_any_preferred(nms, preferred, h) ==
    LET NotPutative(nm) == ~endswith(nm, putative_tag)
        sure == SelectSeq(list(nms, h), NotPutative)
    IN  IF preferred # {}
        THEN select_shortest(CHOOSE o \in HashOrders(preferred) : TRUE)
        ELSE IF sure # <<>> THEN select_shortest(sure)
        ELSE select_shortest(list(nms, h))

\* h is the order in which the set nms is iterated; the intersection is a
\* new set, iterated in an order of its own (h ranges over every order
\* of nms, so every order of the intersection is covered)
select_repr(nms, preferred, h) ==
    LET hits == nms \cap preferred
        NotPutative(nm) == ~endswith(nm, putative_tag)
        sure == SelectSeq(list(nms, h), NotPutative)
    IN  IF hits # {} THEN select_shortest(list(hits, h))
        ELSE IF sure # <<>> THEN select_shortest(sure)
        ELSE select_shortest(list(nms, h))

\* ---------------------------------------------------------------- crc64
\* CRC-64/ISO: reflected polynomial 0xD800000000000000, register 0 at the
\* start, no final xor.  The register is its eight bytes, most significant
\* first; only the 16 leading bits of a table entry can be set.
RECURSIVE xor(_, _)
xor(a, b) ==
    IF a = 0 THEN b
    ELSE IF b = 0 THEN a
    ELSE ((a + b) % 2) + 2 * xor(a \div 2, b \div 2)

POLY64REVh == 55296

\* the 16 leading bits of the 256 table entries
CRCTableh ==
    [i \in 0..255 |->
        LET part[j \in 0..8] ==
                IF j = 0 THEN [l |-> i, h |-> 0]
                ELSE LET p == part[j - 1]
                         h1 == p.h \div 2
                     IN  [l |-> p.l \div 2,
                          h |-> IF p.l % 2 = 1 THEN xor(h1, POLY64REVh)
                                ELSE h1]
        IN  part[8].h]

\* the register after one more byte
crc64_step(crc, item) ==
    LET t == CRCTableh[xor(crc[8], item) % 256]
    IN  <<t \div 256, xor(crc[1], t % 256),
          crc[2], crc[3], crc[4], crc[5], crc[6], crc[7]>>

RECURSIVE crc64_pair(_, _)
crc64_pair(bytes, crc) ==
    IF bytes = <<>> THEN crc
    ELSE crc64_pair(Tail(bytes), crc64_step(crc, Head(bytes)))

hexdigit(d) == IF d < 10 THEN 48 + d ELSE 55 + d

\* the 16 hexadecimal digits of the checksum of an ASCII string
crc64(s) ==
    LET crc == crc64_pair(s, <<0, 0, 0, 0, 0, 0, 0, 0>>)
    IN  [k \in 1..16 |-> IF k % 2 = 1 THEN hexdigit(crc[(k + 1) \div 2] \div 16)
                         ELSE hexdigit(crc[k \div 2] % 16)]

\* --------------------------------------------------------- textwrap.wrap
\* TextWrapper with its defaults, on text without hyphens.
RECURSIVE expandtabs(_, _)
expandtabs(s, col) ==
    IF s = <<>> THEN <<>>
    ELSE IF Head(s) = TAB
         THEN [i \in 1..(8 - (col % 8)) |-> SP] \o expandtabs(Tail(s), 0)
         ELSE IF Head(s) \in {NL, CR}
              THEN <<Head(s)>> \o expandtabs(Tail(s), 0)
              ELSE <<Head(s)>> \o expandtabs(Tail(s), col + 1)

munge_whitespace(text) ==
    LET t == expandtabs(text, 0)
    IN  [i \in 1..Len(t) |-> IF t[i] \in {9, 10, 11, 12, 13, 32}
                              THEN SP ELSE t[i]]

\* the length of the leading run of spaces (ws) or of other characters
RECURSIVE runlen(_, _)
runlen(s, ws) ==
    IF s = <<>> \/ ((Head(s) = SP) # ws) THEN 0
    ELSE 1 + runlen(Tail(s), ws)

RECURSIVE split_chunks(_)
split_chunks(text) ==
    IF text = <<>> THEN <<>>
    ELSE LET n == runlen(text, Head(text) = SP)
         IN  <<SubSeq(text, 1, n)>>
                \o split_chunks(SubSeq(text, n + 1, Len(text)))

handle_long_word(chunks, cur_line, cur_len, width) ==
    LET space_left == IF width < 1 THEN 1 ELSE width - cur_len
        chunk == Head(chunks)
    IN  <<Append(cur_line, SubSeq(chunk, 1, space_left)),
          <<SubSeq(chunk, space_left + 1, Len(chunk))>> \o Tail(chunks)>>

\* the inner loop of _wrap_chunks: <<cur_line, the chunks left>>
RECURSIVE fill_line(_, _, _)
fill_line(chunks, cur_line, width) ==
    IF chunks # <<>> /\ Len(join(cur_line)) + Len(Head(chunks)) <= width
    THEN fill_line(Tail(chunks), Append(cur_line, Head(chunks)), width)
    ELSE <<cur_line, chunks>>

RECURSIVE wrap_chunks(_, _, _)
wrap_chunks(chunks, lines, width) ==
    IF chunks = <<>> THEN lines
    ELSE LET c0 == IF strip(Head(chunks)) = <<>> /\ lines # <<>>
                   THEN Tail(chunks) ELSE chunks
             f == fill_line(c0, <<>>, width)
             h == IF f[2] # <<>> /\ Len(Head(f[2])) > width
                  THEN handle_long_word(f[2], f[1], Len(join(f[1])), width)
                  ELSE f
             cur == IF h[1] # <<>> /\ strip(h[1][Len(h[1])]) = <<>>
                    THEN SubSeq(h[1], 1, Len(h[1]) - 1) ELSE h[1]
         IN  wrap_chunks(h[2],
                         IF cur # <<>> THEN Append(lines, join(cur))
                         ELSE lines,
                         width)

wrap(text, width) == wrap_chunks(split_chunks(munge_whitespace(text)),
                                 <<>>, width)

\* ---------------------------------------------------------------- output
\* print(*lines, sep="\n"): the lines written
print_lines(lines) ==
    IF lines = <<>> THEN <<<<NL>>>>
    ELSE [i \in 1..Len(lines) |-> lines[i] \o <<NL>>]

\* write_seqs with a space between the marker and the name
write_seqs_spaced(seqs, width) ==
    LET items == sorted(seqs, "item")
        out[i \in 0..Len(items)] ==
            IF i = 0 THEN <<>>
            ELSE out[i - 1] \o <<<<GT, SP>> \o items[i][1] \o <<NL>>>>
                    \o print_lines(wrap(items[i][2], width))
    IN  out[Len(items)]

\* the lines write_seqs writes
write_seqs(seqs, width) ==
    LET items == sorted(seqs, "item")
        out[i \in 0..Len(items)] ==
            IF i = 0 THEN <<>>
            ELSE out[i - 1] \o <<<<GT>> \o items[i][1] \o <<NL>>>>
                    \o print_lines(wrap(items[i][2], width))
    IN  out[Len(items)]

\* ------------------------------------------------------------------ main
\* cluster_seqs with reprs[repr_nm] = seq after the loop instead of in it
cluster_seqs_dedent(seqs, preferred, hs) ==
    LET n == Len(seqs)
        cl[i \in 0..n] ==
            IF i = 0 THEN <<>>
            ELSE Append(cl[i - 1],
                        <<-Cardinality(seqs[i][2]),
                          select_repr(seqs[i][2], preferred, hs[i]),
                          Len(seqs[i][1]), seqs[i][2],
                          crc64(upper(seqs[i][1]))>>)
    IN  [clusters |-> cl[n],
         reprs |-> IF n = 0 THEN <<>>
                   ELSE <<<<select_repr(seqs[n][2], preferred, hs[n]),
                          seqs[n][1]>>>>]

\* the loop over seqs.items(): [reprs, clusters] after it; hs[i] is the
\* order in which the set of names of the i-th item is iterated
cluster_seqs(seqs, preferred, hs) ==
    LET st[i \in 0..Len(seqs)] ==
            IF i = 0 THEN [reprs |-> <<>>, clusters |-> <<>>]
            ELSE LET seq == seqs[i][1]
                     nms == seqs[i][2]
                     repr_nm == select_repr(nms, preferred, hs[i])
                     checksum == crc64(upper(seq))
                 IN  [clusters |->
                          Append(st[i - 1].clusters,
                                 <<-Cardinality(nms), repr_nm, Len(seq),
                                   nms, checksum>>),
                      reprs |-> setitem(st[i - 1].reprs, repr_nm, seq)]
    IN  st[Len(seqs)]

default_prefix == <<110, 114, 45>>
default_width == 80

tsv_header == <<"#:Sequence_ID", "Sequence_length", "Representative",
                "Cluster_ID", "CRC64">>

\* cluster_rows with sorted(nms, reverse=True)
cluster_rows_descending(num, cluster, prefix, h) ==
    LET nms == Reverse(sorted(list(cluster[4], h), "str"))
    IN  [i \in 1..Len(nms) |->
            <<nms[i], str(cluster[3]), cluster[2], prefix \o str(num),
              cluster[5]>>]

\* the rows written for the cluster of rank num, whose set of names is
\* iterated in the order h
cluster_rows(num, cluster, prefix, h) ==
    LET nms == sorted(list(cluster[4], h), "str")
    IN  [i \in 1..Len(nms) |->
            <<nms[i], str(cluster[3]), cluster[2], prefix \o str(num),
              cluster[5]>>]

\* write_rows with enumerate(..., 1)
write_rows_from_one(ranked, prefix, hs) ==
    LET out[i \in 0..Len(ranked)] ==
            IF i = 0 THEN <<>>
            ELSE out[i - 1] \o cluster_rows(i, ranked[i], prefix, hs[i])
    IN  out[Len(ranked)]

\* the rows written for the sorted clusters
write_rows(ranked, prefix, hs) ==
    LET out[i \in 0..Len(ranked)] ==
            IF i = 0 THEN <<>>
            ELSE out[i - 1] \o cluster_rows(i - 1, ranked[i], prefix, hs[i])
    IN  out[Len(ranked)]

\* the sets of names of the values of seqs, and of a list of clusters
names_of_seqs(seqs) == [i \in 1..Len(seqs) |-> seqs[i][2]]
names_of_clusters(clusters) == [i \in 1..Len(clusters) |-> clusters[i][4]]

\* the pairs of artifacts main can write for an input file: one for each
\* way the sets of names are iterated
main_outputs(f, pf, w, prefix) ==
    LET seqs == load_seqs(f)
        tsvs(r) ==
            LET ranked == sorted(r.clusters, "cluster")
                fasta == write_seqs(r.reprs, w)
            IN  {<<fasta, <<tsv_header>> \o write_rows(ranked, prefix, hr)>> :
                    hr \in HashOrdersOf(names_of_clusters(ranked))}
    IN  UNION {tsvs(cluster_seqs(seqs, pf, hs)) :
                  hs \in HashOrdersOf(names_of_seqs(seqs))}

\* ----------------------------------------------------------------- state
VARIABLES pc,          \* the position in main
          gold,        \* the lines of the --gold file, NoFile without one
          infasta,     \* the lines of the input file
          width,       \* args.width
          preferred, seqs, reprs, clusters,
          ranked,      \* sorted(clusters)
          oufasta,     \* the lines written to <TAG>.fasta.gz
          outsv,       \* the header and rows written to <TAG>.clusters.tsv
          reloaded     \* load_seqs of the lines of oufasta

vars == <<pc, gold, infasta, width, preferred, seqs, reprs, clusters,
          ranked, oufasta, outsv, reloaded>>

\* ---------------------------------------------------------------- inputs
RECURSIVE SeqsUpTo(_, _)
SeqsUpTo(S, n) ==
    IF n = 0 THEN {<<>>}
    ELSE LET R == SeqsUpTo(S, n - 1)
         IN  R \cup {Append(r, x) : r \in {q \in R : Len(q) = n - 1}, x \in S}

line(s) == s \o <<NL>>

\* header lines: >A   >B x   >AP
Headers == [A |-> line(<<GT, 65>>), B |-> line(<<GT, 66, SP, 120>>),
            AP |-> line(<<GT, 65, 80>>)]

\* the lines under a header, which are any lines that do not start with
\* the marker: none; a blank line; "M"; " k " then "M"; a tab then the
\* marker; "M", a tab, "K"; "M K"
Bodies == [none |-> <<>>,
           blank |-> <<line(<<SP>>)>>,
           M |-> <<line(<<77>>)>>,
           kM |-> <<line(<<SP, 107, SP>>), line(<<77>>)>>,
           marker |-> <<line(<<TAB, GT>>)>>,
           tab |-> <<line(<<77, TAB, 75>>)>>,
           space |-> <<line(<<77, SP, 75>>)>>]

\* the records of the input files: three Names under one Sequence, a Name
\* under a second Sequence and under none, a blank line, and Sequences
\* that hold the marker, a tab and a space
Records == {<<Headers.A>> \o Bodies.M, <<Headers.B>> \o Bodies.M,
            <<Headers.AP>> \o Bodies.M, <<Headers.A>> \o Bodies.kM,
            <<Headers.A>> \o Bodies.none, <<Headers.B>> \o Bodies.blank,
            <<Headers.AP>> \o Bodies.marker,
            <<Headers.B>> \o Bodies.tab, <<Headers.AP>> \o Bodies.space}

\* a line before the first header
Orphan == <<line(<<77>>)>>

Inputs == {join(rs) : rs \in SeqsUpTo(Records, MaxRecs)}
            \cup {Orphan \o join(rs) : rs \in SeqsUpTo(Records, MaxRecs - 1)}

\* --width: one residue on a line, and the default
Widths == {1, default_width}

\* --gold files: none; "#A", "B "
Golds == {NoFile, <<line(<<HASH, 65>>), line(<<66, SP>>)>>}

Init ==
    /\ pc = "start"
    /\ gold \in Golds
    /\ infasta \in Inputs
    /\ width \in Widths
    /\ preferred = {}
    /\ seqs = <<>>
    /\ reprs = <<>>
    /\ clusters = <<>>
    /\ ranked = <<>>
    /\ oufasta = <<>>
    /\ outsv = <<>>
    /\ reloaded = <<>>

\* --------------------------------------------------------------- actions
LoadNms ==
    /\ pc = "start"
    /\ preferred' = IF gold = NoFile THEN {} ELSE load_nms(gold)
    /\ pc' = "nms"
    /\ UNCHANGED <<gold, infasta, width, seqs, reprs, clusters, ranked,
                   oufasta, outsv, reloaded>>

LoadSeqs ==
    /\ pc = "nms"
    /\ seqs' = load_seqs(infasta)
    /\ pc' = "seqs"
    /\ UNCHANGED <<gold, infasta, width, preferred, reprs, clusters, ranked,
                   oufasta, outsv, reloaded>>

Cluster ==
    /\ pc = "seqs"
    /\ \E hs \in HashOrdersOf(names_of_seqs(seqs)) :
          LET r == cluster_seqs(seqs, preferred, hs)
          IN  /\ reprs' = r.reprs
              /\ clusters' = r.clusters
    /\ pc' = "clusters"
    /\ UNCHANGED <<gold, infasta, width, preferred, seqs, ranked, oufasta,
                   outsv, reloaded>>

WriteSeqs ==
    /\ pc = "clusters"
    /\ oufasta' = write_seqs(reprs, width)
    /\ pc' = "fasta"
    /\ UNCHANGED <<gold, infasta, width, preferred, seqs, reprs, clusters,
                   ranked, outsv, reloaded>>

WriteTsv ==
    /\ pc = "fasta"
    /\ LET sorted_clusters == sorted(clusters, "cluster")
       IN  /\ ranked' = sorted_clusters
           /\ \E hr \in HashOrdersOf(names_of_clusters(sorted_clusters)) :
                 outsv' = <<tsv_header>>
                             \o write_rows(sorted_clusters, default_prefix, hr)
    /\ pc' = "done"
    /\ UNCHANGED <<gold, infasta, width, preferred, seqs, reprs, clusters,
                   oufasta, reloaded>>

Next == LoadNms \/ LoadSeqs \/ Cluster \/ WriteSeqs \/ WriteTsv

Spec == Init /\ [][Next]_vars

\* ------------------------------------------- inputs for select_repr
\* names: ""  A  B  P  AB  AP  BP  ABP
NamePool == {<<>>, <<65>>, <<66>>, <<80>>, <<65, 66>>, <<65, 80>>,
             <<66, 80>>, <<65, 66, 80>>}

SubsetsUpTo(S, n) == {T \in SUBSET S : Cardinality(T) <= n}

\* the names of a set in ascending order
RECURSIVE ascending(_)
ascending(S) ==
    IF S = {} THEN <<>>
    ELSE LET x == CHOOSE y \in S : \A z \in S \ {y} : StrLT(y, z)
         IN  <<x>> \o ascending(S \ {x})

\* a file of records that all carry the sequence "M", one per name
fasta_of(names) ==
    join([i \in 1..Len(names) |->
            <<line(<<GT>> \o names[i]), line(<<77>>)>>])

\* a --gold file naming the names
gold_of(names) == [i \in 1..Len(names) |-> line(names[i])]

InitRepr ==
    /\ pc = "start"
    /\ \E nms \in SubsetsUpTo(NamePool, MaxGroup) \ {{}} :
          \E o \in {ascending(nms), Reverse(ascending(nms))} :
             infasta = fasta_of(o)
    /\ \E pf \in SubsetsUpTo(NamePool, MaxPref) :
          gold = IF pf = {} THEN NoFile ELSE gold_of(ascending(pf))
    /\ width = default_width
    /\ preferred = {}
    /\ seqs = <<>>
    /\ reprs = <<>>
    /\ clusters = <<>>
    /\ ranked = <<>>
    /\ oufasta = <<>>
    /\ outsv = <<>>
    /\ reloaded = <<>>

SpecRepr == InitRepr /\ [][Next]_vars

\* ------------------------------------------- inputs for write_seqs
\* the characters of a sequence line: M, space, tab, >
WrapAlphabet == {77, SP, TAB, GT}

\* record A with one body line, then nothing or record B with "MM"
InitWrap ==
    /\ pc = "start"
    /\ \E body \in SeqsUpTo(WrapAlphabet, MaxSeqLen),
          rest \in {<<>>, <<line(<<GT, 66>>), line(<<77, 77>>)>>} :
          infasta = <<line(<<GT, 65>>), line(body)>> \o rest
    /\ gold = NoFile
    /\ width \in 1..MaxWidth
    /\ preferred = {}
    /\ seqs = <<>>
    /\ reprs = <<>>
    /\ clusters = <<>>
    /\ ranked = <<>>
    /\ oufasta = <<>>
    /\ outsv = <<>>
    /\ reloaded = <<>>

\* the sequence file is read again
Reload ==
    /\ pc = "done"
    /\ reloaded' = load_seqs(oufasta)
    /\ pc' = "reloaded"
    /\ UNCHANGED <<gold, infasta, width, preferred, seqs, reprs, clusters,
                   ranked, oufasta, outsv>>

NextWrap == Next \/ Reload

SpecWrap == InitWrap /\ [][NextWrap]_vars

\* ------------------------------------------------------------ vocabulary
\* The records of a file, read off its lines: a record is a header line and
\* the lines up to the next header; its Name is the first token of the
\* header without the marker, its Sequence the trimmed lines joined.
HeaderIdx(f) == {i \in 1..Len(f) : startswith(f[i], <<GT>>)}

BodyEnd(f, i) ==
    LET later == {j \in HeaderIdx(f) : j > i}
    IN  IF later = {} THEN Len(f)
        ELSE (CHOOSE j \in later : \A k \in later : j <= k) - 1

RecName(f, i) == lstrip(split0(f[i]), GT)
RecSeq(f, i) == join([k \in 1..(BodyEnd(f, i) - i) |-> strip(f[i + k])])
FileRecs(f) == {<<RecName(f, i), RecSeq(f, i)>> : i \in HeaderIdx(f)}

InputNames == {r[1] : r \in FileRecs(infasta)}
InputSeqs == {r[2] : r \in FileRecs(infasta)}

\* every Name maps to exactly one Sequence
NamesFunctional ==
    \A r1, r2 \in FileRecs(infasta) : r1[1] = r2[1] => r1[2] = r2[2]

\* no record of the input has an empty Sequence
NoEmptySeq == <<>> \notin InputSeqs

\* no character of s is whitespace or the header marker
Residues(s) == \A i \in 1..Len(s) : ~IsSpace(s[i]) /\ s[i] # GT

\* no Sequence of the input holds whitespace or the header marker
ResidueSeqs == \A s \in InputSeqs : Residues(s)

Groups == {seqs[i][2] : i \in 1..Len(seqs)}
Loaded == pc \notin {"start", "nms"}
Clustered == pc \notin {"start", "nms", "seqs"}

\* the selection policy of the Representative
KeyLess(x, y) == Len(x) < Len(y) \/ (Len(x) = Len(y) /\ StrLT(x, y))
Unsure(n) == n # <<>> /\ n[Len(n)] = 80
Candidates(names, pf) ==
    IF names \cap pf # {} THEN names \cap pf
    ELSE IF \E n \in names : ~Unsure(n) THEN {n \in names : ~Unsure(n)}
    ELSE names
Smallest(C) == CHOOSE x \in C : \A y \in C \ {x} : KeyLess(x, y)

\* the rank order: larger Group first, then ascending Representative
RankBefore(size1, repr1, size2, repr2) ==
    size1 > size2 \/ (size1 = size2 /\ StrLT(repr1, repr2))

\* What the input says of its Groups: for every Sequence of the input the
\* Names that carry it, their Representative, and the rank, i.e. the number
\* of Groups that go before it in the rank order.
GroupTable ==
    LET recs == FileRecs(infasta)
        ss == {r[2] : r \in recs}
        members == [s \in ss |-> {r[1] : r \in {q \in recs : q[2] = s}}]
        repr == [s \in ss |-> Smallest(Candidates(members[s], preferred))]
        rank == [s \in ss |->
                    Cardinality({t \in ss \ {s} :
                        RankBefore(Cardinality(members[t]), repr[t],
                                   Cardinality(members[s]), repr[s])})]
    IN  [seqs |-> ss, members |-> members, repr |-> repr, rank |-> rank]

ClusterID(k) == default_prefix \o str(k)
Rows == Tail(outsv)

\* ---------------------------------------------------------------- claims
\* C1: every Name with a non-empty Sequence is in exactly one Group of the
\* mapping load_seqs returns, and the Groups together hold exactly those
\* Names.
C1_Partition ==
    Loaded =>
        LET NE == {r[1] : r \in {q \in FileRecs(infasta) : q[2] # <<>>}}
        IN  /\ \A n \in NE :
                 Cardinality({i \in 1..Len(seqs) : n \in seqs[i][2]}) = 1
            /\ UNION Groups = NE

\* C2: a record with an empty Sequence is left out of the mapping: no Group
\* has the empty Sequence as its key, a Name with only empty records is in
\* no Group, and it gets no row and no record.
C2_EmptyOmitted ==
    Loaded =>
        LET EmptyOnly == {n \in InputNames :
                            \A r \in FileRecs(infasta) :
                                r[1] = n => r[2] = <<>>}
        IN  /\ <<>> \notin keys(seqs)
            /\ EmptyOnly \cap UNION Groups = {}
            /\ pc = "done" =>
                  /\ \A i \in 1..Len(Rows) : Rows[i][1] \notin EmptyOnly
                  /\ \A r \in FileRecs(oufasta) : r[1] \notin EmptyOnly

\* C3: the Representative of a Group is the smallest, by (length, value),
\* of the candidates of the three-step policy; it is a member of the Group,
\* a preferred one when the Group has any, and one without the putative
\* suffix when there is no preferred member and some member lacks it.
C3_ReprPolicy ==
    Clustered =>
        \A i \in 1..Len(clusters) :
            LET names == seqs[i][2]
                r == clusters[i][2]
            IN  /\ r = Smallest(Candidates(names, preferred))
                /\ r \in names
                /\ names \cap preferred # {} => r \in preferred
                /\ (names \cap preferred = {} /\ \E n \in names : ~Unsure(n))
                      => ~Unsure(r)

\* a preferred member with the putative suffix is chosen over a
\* shorter member without it
C3_Witness ==
    /\ pc = "clusters"
    /\ \E i \in 1..Len(clusters) :
          /\ clusters[i][2] \in preferred
          /\ Unsure(clusters[i][2])
          /\ \E n \in seqs[i][2] :
                ~Unsure(n) /\ Len(n) < Len(clusters[i][2])

\* the Groups are ranked larger first, then by ascending Representative,
\* and no two Groups have the same Representative
RankOrder ==
    /\ Len(ranked) = Len(clusters)
    /\ {ranked[i] : i \in 1..Len(ranked)}
          = {clusters[i] : i \in 1..Len(clusters)}
    /\ \A i, j \in 1..Len(ranked) :
          i < j => RankBefore(-ranked[i][1], ranked[i][2],
                              -ranked[j][1], ranked[j][2])
    /\ \A i, j \in 1..Len(clusters) :
          i # j => clusters[i][2] # clusters[j][2]

\* C4 as stated: for every input the rank order is larger Group first, then
\* ascending Representative, the Representatives being unique, so that the
\* size and the Representative always decide.  (Read on the inputs without
\* an empty Sequence, where the Groups are not in question.)
C4_RankOrder == (pc = "done" /\ NoEmptySeq) => RankOrder

\* C4 amended: the same, for the inputs in which every Name maps to exactly
\* one Sequence.
C4_RankOrderFunctional == (pc = "done" /\ NamesFunctional) => RankOrder

\* a larger Group with the greater Representative is ranked first, and two
\* Groups of one size are ranked against the lengths of their Sequences
C4_Witness ==
    /\ pc = "done"
    /\ NamesFunctional
    /\ Len(ranked) = 2
    /\ \/ /\ -ranked[1][1] > -ranked[2][1]
          /\ StrLT(ranked[2][2], ranked[1][2])
       \/ /\ ranked[1][1] = ranked[2][1]
          /\ ranked[1][3] > ranked[2][3]

\* C5: the Cluster Identifiers written are prefix+0 .. prefix+(N-1) for the
\* N Groups; every Group has one rank, and the rows of rank k are the rows
\* of one Group: they carry its Names, Representative and Checksum.
C5_RankTotality ==
    pc = "done" =>
        LET N == Len(seqs)
        IN  /\ Len(ranked) = N
            /\ \A i \in 1..N :
                 /\ clusters[i][4] = seqs[i][2]
                 /\ Cardinality({j \in 1..N : ranked[j] = clusters[i]})
                      = Cardinality({j \in 1..N : clusters[j] = clusters[i]})
            /\ {Rows[i][4] : i \in 1..Len(Rows)}
                  = {ClusterID(k) : k \in 0..(N - 1)}
            /\ Cardinality({ClusterID(k) : k \in 0..(N - 1)}) = N
            /\ \A k \in 0..(N - 1) :
                 LET mine == {i \in 1..Len(Rows) : Rows[i][4] = ClusterID(k)}
                 IN  /\ {Rows[i][1] : i \in mine} = ranked[k + 1][4]
                     /\ \A i \in mine :
                          /\ Rows[i][3] = ranked[k + 1][2]
                          /\ Rows[i][5] = ranked[k + 1][5]

\* three Groups are ranked
C5_Witness == pc = "done" /\ Len(seqs) = 3 /\ Len(Rows) = 3

\* the input file with its records in another order
HeaderAt(f, k) ==
    CHOOSE i \in HeaderIdx(f) :
        Cardinality({j \in HeaderIdx(f) : j <= i}) = k
Block(f, k) == SubSeq(f, HeaderAt(f, k), BodyEnd(f, HeaderAt(f, k)))
Preamble(f) ==
    IF HeaderIdx(f) = {} THEN f ELSE SubSeq(f, 1, HeaderAt(f, 1) - 1)
Reorder(f, p) ==
    Preamble(f) \o join([k \in 1..Len(p) |-> Block(f, p[k])])
\* the exchanges of two adjacent records; every order of the records is
\* reached by such exchanges, and the input with two records exchanged is
\* an input too
Exchanges(f) ==
    LET n == Cardinality(HeaderIdx(f))
    IN  {[k \in 1..n |-> IF k = i THEN i + 1 ELSE IF k = i + 1 THEN i ELSE k] :
            i \in 1..(n - 1)}

\* whatever the order of the records and the order in which the sets of
\* names are iterated, the run writes the artifacts that this one wrote
SameArtifacts ==
    /\ main_outputs(infasta, preferred, width, default_prefix)
          = {<<oufasta, outsv>>}
    /\ \A p \in Exchanges(infasta) :
          main_outputs(Reorder(infasta, p), preferred, width, default_prefix)
              = {<<oufasta, outsv>>}

\* C6 as stated: a run on the same records in another order, with the same
\* preference set, writes the same two artifacts: every Group has the same
\* Representative, Checksum and Cluster Identifier.  (Read on the
\* inputs without an empty Sequence.)
C6_OrderIndependent == (pc = "done" /\ NoEmptySeq) => SameArtifacts

\* C6 amended: the same, for the inputs in which every Name maps to exactly
\* one Sequence.
C6_OrderIndependentFunctional ==
    (pc = "done" /\ NamesFunctional) => SameArtifacts

\* the Group of two Names that was read second is ranked first, so that the
\* order of the records is not the order of the ranks
C6_Witness ==
    /\ pc = "done"
    /\ NamesFunctional
    /\ Len(seqs) = 2
    /\ ranked[1] = clusters[2]
    /\ Cardinality(clusters[2][4]) = 2
    /\ Cardinality(Exchanges(infasta)) = 2

\* the sequence file has one record for each Group, under the Group's
\* Representative and with the Group's Sequence
OneRecordPerGroup ==
    /\ Len(reprs) = Len(seqs)
    /\ Cardinality(HeaderIdx(oufasta)) = Len(seqs)
    /\ \A i \in 1..Len(seqs) :
          /\ get(reprs, clusters[i][2]) = seqs[i][1]
          /\ <<clusters[i][2], seqs[i][1]>> \in FileRecs(oufasta)

\* C7 as stated: for every input the sequence file holds exactly one record
\* for each Group, keyed by its Representative and carrying its Sequence.
\* (Read on the inputs without an empty Sequence.)
C7_OneRecordPerGroup ==
    (pc \in {"fasta", "done"} /\ NoEmptySeq) => OneRecordPerGroup

\* C7 amended: the same, for the inputs in which every Name maps to exactly
\* one Sequence and no Sequence holds whitespace or the marker '>'.
C7_OneRecordPerGroupFunctional ==
    (pc \in {"fasta", "done"} /\ NamesFunctional /\ ResidueSeqs)
        => OneRecordPerGroup

\* two Groups, one of two Names, have their records written, one of them
\* with its Sequence wrapped on two lines
C7_Witness ==
    /\ pc = "fasta"
    /\ NamesFunctional
    /\ ResidueSeqs
    /\ Len(seqs) = 2
    /\ \E i \in 1..2 : Cardinality(seqs[i][2]) = 2
    /\ width = 1
    /\ Len(oufasta) = 5

\* the rows are the Names of the Groups, Group after Group in rank order
\* and ascending within a Group, one row for each Name of the input, each
\* with the length, Representative, Cluster Identifier and Checksum of the
\* Group of its Name
RowsInRankOrder ==
    LET T == GroupTable
        names == UNION {T.members[s] : s \in T.seqs}
        \* a Sequence of the Name of row i
        seqOf == [i \in 1..Len(Rows) |->
                    IF Rows[i][1] \in names
                    THEN CHOOSE s \in T.seqs : Rows[i][1] \in T.members[s]
                    ELSE None]
    IN  /\ outsv[1] = tsv_header
        /\ Len(Rows) = Cardinality(names)
        /\ {Rows[i][1] : i \in 1..Len(Rows)} = names
        /\ \A i \in 1..Len(Rows) :
              /\ Rows[i][2] = str(Len(seqOf[i]))
              /\ Rows[i][3] = T.repr[seqOf[i]]
              /\ Rows[i][4] = ClusterID(T.rank[seqOf[i]])
              /\ Rows[i][5] = crc64(upper(seqOf[i]))
        /\ \A i, j \in 1..Len(Rows) :
              i < j =>
                 \/ T.rank[seqOf[i]] < T.rank[seqOf[j]]
                 \/ /\ seqOf[i] = seqOf[j]
                    /\ StrLT(Rows[i][1], Rows[j][1])

\* C8 as stated: for every input the rows after the header line are the
\* Names of the Groups in rank order, ascending within a Group, one row per
\* original Name with the data of its Group.  (Read on the inputs without an
\* empty Sequence.)
C8_Rows == (pc = "done" /\ NoEmptySeq) => RowsInRankOrder

\* C8 amended: the same, for the inputs in which every Name maps to exactly
\* one Sequence.
C8_RowsFunctional == (pc = "done" /\ NamesFunctional) => RowsInRankOrder

\* a Group of two Names is written before a Group of one Name that was
\* read first
C8_Witness ==
    /\ pc = "done"
    /\ NamesFunctional
    /\ Len(Rows) = 3
    /\ Rows[1][4] = ClusterID(0)
    /\ Rows[2][4] = ClusterID(0)
    /\ Rows[3][4] = ClusterID(1)
    /\ Rows[3][1] = RecName(infasta, HeaderAt(infasta, 1))

\* the Representative of every row is the key of a record of the sequence
\* file, and the key of every record is the Name of a row that has the key
\* as its Representative and the length of the record's Sequence
Consistent ==
    /\ \A i \in 1..Len(Rows) :
          \E r \in FileRecs(oufasta) : r[1] = Rows[i][3]
    /\ \A r \in FileRecs(oufasta) :
          \E i \in 1..Len(Rows) :
             /\ Rows[i][1] = r[1]
             /\ Rows[i][3] = r[1]
             /\ Rows[i][2] = str(Len(r[2]))

\* C9 as stated: for every input the Representative of every row is the
\* key of a record of the sequence file, and the key of every record is the
\* Name of a row that has the key as its Representative and the length of
\* the record's Sequence.
C9_Consistent == pc = "done" => Consistent

\* C9 amended: the same, for the inputs in which no Sequence holds
\* whitespace or the marker '>'.
C9_ConsistentResidues == (pc = "done" /\ ResidueSeqs) => Consistent

\* two records are written, one of them wrapped on two lines and one for a
\* preferred Representative that is not the first Name of its Group
C9_Witness ==
    /\ pc = "done"
    /\ ResidueSeqs
    /\ width = 1
    /\ Len(oufasta) = 5
    /\ Cardinality(FileRecs(oufasta)) = 2
    /\ \E i \in 1..Len(Rows) :
          Rows[i][3] \in preferred /\ StrLT(Rows[i][1], Rows[i][3])

\* the wrapped lines are at most width long
LinesFit ==
    \A i \in 1..Len(reprs) :
        LET w == wrap(reprs[i][2], width)
        IN  \A k \in 1..Len(w) : Len(w[k]) <= width

\* reading the sequence file gives one Group per record, the Representative
\* alone, under the Sequence as it was
ReadBack ==
    /\ Len(reloaded) = Len(reprs)
    /\ {reloaded[i] : i \in 1..Len(reloaded)}
          = {<<reprs[i][2], {reprs[i][1]}>> : i \in 1..Len(reprs)}
    /\ \A i \in 1..Len(reprs) : join(wrap(reprs[i][2], width)) = reprs[i][2]

\* C10 as stated: for every mapping the engine produces and every width of
\* at least 1, load_seqs of the lines write_seqs wrote is one singleton
\* Group per record under the unchanged Sequence, and no body line is longer
\* than the width.
C10_RoundTrip == pc = "reloaded" => (LinesFit /\ ReadBack)

\* C10 amended: no body line is longer than the width, and the round trip
\* holds when no Sequence contains whitespace or the marker '>'.
C10_RoundTripResidues ==
    pc = "reloaded" =>
        /\ LinesFit
        /\ (\A i \in 1..Len(reprs) : Residues(reprs[i][2])) => ReadBack

\* two records are read back, one of a Sequence wrapped on several lines
C10_Witness ==
    /\ pc = "reloaded"
    /\ Len(reprs) = 2
    /\ \A i \in 1..Len(reprs) : Residues(reprs[i][2])
    /\ \E i \in 1..Len(reprs) : Len(wrap(reprs[i][2], width)) > 1

====
